---- MODULE Spec2Model ----
(***************************************************************************)
(* Model of the JSON import engine of neptuneaccess.py: the recursive tree *)
(* import (import_json, create_nodes_from_python_data, dict_importer,      *)
(* list_importer) and the dump restore (import_json_dump), together with   *)
(* the node/link primitives they call, the deletion of nodes by label      *)
(* (delete_nodes_by_label, empty_dbase) and the graph store those act on.  *)
(***************************************************************************)
EXTENDS Integers, Sequences, FiniteSets, TLC

(***************************************************************************)
(* Bounds of the model.                                                    *)
(***************************************************************************)
\* Largest JSON document: number of JSON values (scalars, objects, arrays) in it.
MaxSize == 4
\* Largest dump: number of records in the list.
MaxRecs == 3
\* The collaborator failure injected into an operation hits one of its first
\* MaxFail primitive calls (0: no failure).
MaxFail == 3
\* Most nodes that direct calls of the node-creation primitives put in the store.
MaxNodes == 3

(***************************************************************************)
(* JSON data, as json.loads returns it.                                    *)
(***************************************************************************)
Keys == {"items", "x"}
RootLabels == {"N", "R"}

JNull == [kind |-> "null", val |-> 0]
JInt(n) == [kind |-> "int", val |-> n]
JObj(entries) == [kind |-> "obj", entries |-> entries]
JArr(items) == [kind |-> "arr", items |-> items]
Entry(k, v) == [k |-> k, v |-> v]

Scalars == {JNull, JInt(1), JInt(2)}

\* The ways to give the values of the sequence s distinct keys, in order.
KeyedSeqs(s) ==
    { [i \in 1..Len(s) |-> Entry(f[i], s[i])] :
        f \in { g \in [1..Len(s) -> Keys] :
                  \A i, j \in 1..Len(s) : i # j => g[i] # g[j] } }

RECURSIVE JsonOfSize(_), SeqsOfSize(_)
\* The JSON values made of exactly n values.
JsonOfSize(n) ==
    IF n = 0 THEN {}
    ELSE (IF n = 1 THEN Scalars ELSE {})
         \cup { JArr(s) : s \in SeqsOfSize(n - 1) }
         \cup { JObj(e) : e \in UNION { KeyedSeqs(s) : s \in SeqsOfSize(n - 1) } }
\* The sequences of JSON values that hold n values in all.
SeqsOfSize(n) ==
    IF n = 0 THEN {<<>>}
    ELSE UNION { { <<v>> \o s : v \in JsonOfSize(k), s \in SeqsOfSize(n - k) } :
                 k \in 1..n }

JsonDocs == UNION { JsonOfSize(n) : n \in 1..MaxSize }

\* A JSON text: one that json.loads rejects, or the text of a JSON value.
Malformed == [ok |-> FALSE, data |-> JNull]
TextOf(v) == [ok |-> TRUE, data |-> v]
JsonTexts == {Malformed} \cup { TextOf(v) : v \in JsonDocs }

(***************************************************************************)
(* Values the primitives return and take as node handles.                  *)
(***************************************************************************)
\* An internal database id.
IdVal(n) == [t |-> "id", n |-> n]
\* The list of rows query() returns for a statement without RETURN: [].
RowsVal == [t |-> "rows", n |-> 0]
\* The dict query_extended() returns for a node: its properties plus internal_id.
NodeDict(n) == [t |-> "nodedict", n |-> n]

PropsNone == [isNone |-> TRUE, kv |-> <<>>]
Props(kv) == [isNone |-> FALSE, kv |-> kv]

VARIABLES
    nodes,      \* the store: internal id -> [labels, props] of each node
    nextId,     \* the store: the id the next created node gets
    rels,       \* the store: the relationships, in creation order
    op,         \* the operation called, with its arguments
    calls,      \* the primitive calls the operation issued, in order
    result      \* what the operation returned or raised

vars == <<nodes, nextId, rels, op, calls, result>>

(***************************************************************************)
(* The primitives.  An operation threads a record st through its calls:    *)
(*   st.nodes, st.nextId, st.rels  the store                               *)
(*   st.calls    the primitive calls issued so far                         *)
(*   st.failAt   the call (by position) at which the store fails, 0: none  *)
(*   st.raised   the exception that is propagating, "none" if none is      *)
(***************************************************************************)
NoRaise == "none"

StartOf(failAt) ==
    [nodes |-> nodes, nextId |-> nextId, rels |-> rels,
     calls |-> <<>>, failAt |-> failAt, raised |-> NoRaise]

\* The store fails at this call (the driver raises).
FailsNow(st) == Len(st.calls) + 1 = st.failAt

\* MATCH (m) WHERE id(m) = '<handle>': the handle names a node of the store.
Matches(ns, handle) == handle.t = "id" /\ handle.n \in DOMAIN ns

Link(internal_id, rel_name) == [internal_id |-> internal_id, rel_name |-> rel_name]
Rel(from, to, name) == [from |-> from, to |-> to, name |-> name]

\* The relationships CREATE (n)..., then per link WITH n MATCH (m) ... CREATE
\* (n)-[:rel_name]->(m), creates: a MATCH that finds no node leaves no row for
\* the clauses after it.  ns is the store the call found: the id of the new
\* node is fresh, no link of the caller names it.
RECURSIVE LinkRels(_, _, _, _)
LinkRels(ns, newId, links, i) ==
    IF i > Len(links) \/ ~Matches(ns, links[i].internal_id) THEN <<>>
    ELSE <<Rel(newId, links[i].internal_id.n, links[i].rel_name)>>
         \o LinkRels(ns, newId, links, i + 1)

\* create_node_with_links(labels, properties, links): returns what query()
\* returns for its statement, which has no RETURN clause.  path is the place in
\* the JSON document of the value the node is created for.  (The blanks of
\* property keys become underscores; the keys of the model have none.)
CreateNodeWithLinks(st, labels, properties, links, path) ==
    LET call(ok) == [fn |-> "create_node_with_links", labels |-> {labels},
                     props |-> properties, links |-> links, path |-> path,
                     ok |-> ok, ret |-> RowsVal]
    IN  IF FailsNow(st)
        THEN [st  |-> [st EXCEPT !.calls = Append(@, call(FALSE)),
                                 !.raised = "store failure"],
              ret |-> RowsVal]
        ELSE LET newId == st.nextId
                 ns    == (newId :> [labels |-> {labels}, props |-> properties.kv]) @@ st.nodes
             IN  [st  |-> [st EXCEPT !.nodes = ns,
                                     !.nextId = newId + 1,
                                     !.rels = @ \o LinkRels(st.nodes, newId, links, 1),
                                     !.calls = Append(@, call(TRUE))],
                  ret |-> RowsVal]

(***************************************************************************)
(* The tree import.                                                        *)
(***************************************************************************)
\* is_literal: the value is an int, a float, a str or a bool.
is_literal(value) == value.kind \in {"int", "float", "str", "bool"}

\* node_properties[k] = v
SetItem(kv, k, v) ==
    IF \E i \in 1..Len(kv) : kv[i].k = k
    THEN [i \in 1..Len(kv) |-> IF kv[i].k = k THEN Entry(k, v) ELSE kv[i]]
    ELSE Append(kv, Entry(k, v))

\* One link {"internal_id": id, "rel_name": rel_name} per id, in order.
LinksTo(ids, rel_name) == [i \in 1..Len(ids) |-> Link(ids[i], rel_name)]

RECURSIVE create_nodes_from_python_data(_, _, _, _, _)
RECURSIVE dict_importer(_, _, _, _, _)
RECURSIVE dict_loop(_, _, _, _, _, _, _)
RECURSIVE list_importer(_, _, _, _, _)
RECURSIVE list_loop(_, _, _, _, _, _, _)

\* Mutant of create_nodes_from_python_data: None is wrapped like a literal.
create_nodes_none_wrapped(st, python_data, root_labels, level, path) ==
    LET data == IF is_literal(python_data) \/ python_data.kind = "null"
                THEN JObj(<<Entry("value", python_data)>>)
                ELSE python_data
    IN  IF data.kind = "obj"
        THEN LET d == dict_importer(st, data, root_labels, level, path)
             IN  [st |-> d.st, ids |-> <<d.ret>>]
        ELSE LET l == list_importer(st, data.items, root_labels, level, path)
             IN  IF l.st.raised # NoRaise \/ level = 1 THEN l
                 ELSE LET c == CreateNodeWithLinks(l.st, root_labels, PropsNone,
                                                   LinksTo(l.ids, root_labels), path)
                      IN  [st |-> c.st, ids |-> <<c.ret>>]

\* Mutant of create_nodes_from_python_data: a top-level list is grouped like
\* any other list.
create_nodes_always_grouped(st, python_data, root_labels, level, path) ==
    IF python_data.kind = "null" THEN [st |-> st, ids |-> <<>>]
    ELSE
    LET data == IF is_literal(python_data)
                THEN JObj(<<Entry("value", python_data)>>)
                ELSE python_data
    IN  IF data.kind = "obj"
        THEN LET d == dict_importer(st, data, root_labels, level, path)
             IN  [st |-> d.st, ids |-> <<d.ret>>]
        ELSE LET l == list_importer(st, data.items, root_labels, level, path)
             IN  IF l.st.raised # NoRaise THEN l
                 ELSE LET c == CreateNodeWithLinks(l.st, root_labels, PropsNone,
                                                   LinksTo(l.ids, root_labels), path)
                      IN  [st |-> c.st, ids |-> <<c.ret>>]

\* Mutant of create_nodes_from_python_data: an Object gets no node of its own,
\* its values are imported like the items of a list.
create_nodes_object_as_list(st, python_data, root_labels, level, path) ==
    IF python_data.kind = "null" THEN [st |-> st, ids |-> <<>>]
    ELSE IF is_literal(python_data)
    THEN LET d == dict_importer(st, JObj(<<Entry("value", python_data)>>), root_labels,
                                level, path)
         IN  [st |-> d.st, ids |-> <<d.ret>>]
    ELSE IF python_data.kind = "obj"
    THEN list_importer(st, [i \in 1..Len(python_data.entries) |-> python_data.entries[i].v],
                       root_labels, level, path)
    ELSE LET l == list_importer(st, python_data.items, root_labels, level, path)
         IN  IF l.st.raised # NoRaise \/ level = 1 THEN l
             ELSE LET c == CreateNodeWithLinks(l.st, root_labels, PropsNone,
                                               LinksTo(l.ids, root_labels), path)
                  IN  [st |-> c.st, ids |-> <<c.ret>>]

\* Returns [st, ids]: the ids of the root nodes created for python_data.
create_nodes_from_python_data(st, python_data, root_labels, level, path) ==
    IF python_data.kind = "null" THEN [st |-> st, ids |-> <<>>]
    ELSE
    LET data == IF is_literal(python_data)
                THEN JObj(<<Entry("value", python_data)>>)
                ELSE python_data
    IN  IF data.kind = "obj"
        THEN LET d == dict_importer(st, data, root_labels, level, path)
             IN  [st |-> d.st, ids |-> <<d.ret>>]
        ELSE IF data.kind = "arr"
        THEN LET l == list_importer(st, data.items, root_labels, level, path)
             IN  IF l.st.raised # NoRaise \/ level = 1 THEN l
                 ELSE LET c == CreateNodeWithLinks(l.st, root_labels, PropsNone,
                                                   LinksTo(l.ids, root_labels), path)
                      IN  [st |-> c.st, ids |-> <<c.ret>>]
        ELSE [st |-> [st EXCEPT !.raised = "Unexpected data type"], ids |-> <<>>]

\* Mutant of dict_loop: an entry whose value is None becomes a property too.
dict_loop_keeping_none(st, entries, i, level, path, node_properties, children_info) ==
    IF st.raised # NoRaise \/ i > Len(entries)
    THEN [st |-> st, props |-> node_properties, children |-> children_info]
    ELSE
    LET k == entries[i].k
        v == entries[i].v
    IN  IF is_literal(v) \/ v.kind = "null"
        THEN dict_loop(st, entries, i + 1, level, path,
                       SetItem(node_properties, k, v), children_info)
        ELSE IF v.kind = "obj"
        THEN LET r == create_nodes_from_python_data(st, v, k, level + 1, path \o <<i>>)
             IN  IF r.st.raised # NoRaise
                 THEN [st |-> r.st, props |-> node_properties, children |-> children_info]
                 ELSE dict_loop(r.st, entries, i + 1, level, path, node_properties,
                                children_info \o LinksTo(r.ids, k))
        ELSE LET r == list_importer(st, v.items, k, level, path \o <<i>>)
             IN  dict_loop(r.st, entries, i + 1, level, path, node_properties,
                           children_info \o LinksTo(r.ids, k))

\* The loop of dict_importer over the entries from the i-th on; returns
\* [st, props, children].
dict_loop(st, entries, i, level, path, node_properties, children_info) ==
    IF st.raised # NoRaise \/ i > Len(entries)
    THEN [st |-> st, props |-> node_properties, children |-> children_info]
    ELSE
    LET k == entries[i].k
        v == entries[i].v
    IN  IF is_literal(v)
        THEN dict_loop(st, entries, i + 1, level, path,
                       SetItem(node_properties, k, v), children_info)
        ELSE IF v.kind = "obj"
        THEN LET r == create_nodes_from_python_data(st, v, k, level + 1, path \o <<i>>)
             IN  IF r.st.raised # NoRaise
                 THEN [st |-> r.st, props |-> node_properties, children |-> children_info]
                 ELSE IF Len(r.ids) > 1
                 THEN [st |-> [r.st EXCEPT !.raised = "more than 1 root node"],
                       props |-> node_properties, children |-> children_info]
                 ELSE IF Len(r.ids) = 1
                 THEN dict_loop(r.st, entries, i + 1, level, path, node_properties,
                                Append(children_info, Link(r.ids[1], k)))
                 ELSE dict_loop(r.st, entries, i + 1, level, path, node_properties,
                                children_info)
        ELSE IF v.kind = "arr"
        THEN LET r == list_importer(st, v.items, k, level, path \o <<i>>)
             IN  dict_loop(r.st, entries, i + 1, level, path, node_properties,
                           children_info \o LinksTo(r.ids, k))
        ELSE dict_loop(st, entries, i + 1, level, path, node_properties, children_info)

\* Mutant of dict_importer: the node is created before its children (preorder).
dict_importer_preorder(st, d, labels, level, path) ==
    LET c == CreateNodeWithLinks(st, labels, Props(<<>>), <<>>, path)
        r == dict_loop(c.st, d.entries, 1, level, path, <<>>, <<>>)
    IN  [st |-> r.st, ret |-> c.ret]

\* Returns [st, ret]: the value create_node_with_links returned for d's node.
dict_importer(st, d, labels, level, path) ==
    LET r == dict_loop(st, d.entries, 1, level, path, <<>>, <<>>)
    IN  IF r.st.raised # NoRaise THEN [st |-> r.st, ret |-> RowsVal]
        ELSE CreateNodeWithLinks(r.st, labels, Props(r.props), r.children, path)

\* Mutant of list_loop: an item whose import failed is skipped.
list_loop_skipping_failures(st, l, i, labels, level, path, list_of_child_ids) ==
    IF i > Len(l)
    THEN [st |-> st, ids |-> list_of_child_ids]
    ELSE LET r == create_nodes_from_python_data(st, l[i], labels, level + 1, path \o <<i>>)
         IN  IF r.st.raised # NoRaise
             THEN list_loop([r.st EXCEPT !.raised = NoRaise], l, i + 1, labels, level,
                            path, list_of_child_ids)
             ELSE list_loop(r.st, l, i + 1, labels, level, path, list_of_child_ids \o r.ids)

\* The loop of list_importer over the items from the i-th on.
list_loop(st, l, i, labels, level, path, list_of_child_ids) ==
    IF st.raised # NoRaise \/ i > Len(l)
    THEN [st |-> st, ids |-> list_of_child_ids]
    ELSE LET r == create_nodes_from_python_data(st, l[i], labels, level + 1, path \o <<i>>)
         IN  list_loop(r.st, l, i + 1, labels, level, path, list_of_child_ids \o r.ids)

\* Returns [st, ids]: the ids of the root nodes created for the items of l.
list_importer(st, l, labels, level, path) ==
    IF Len(l) = 0 THEN [st |-> st, ids |-> <<>>]
    ELSE list_loop(st, l, 1, labels, level, path, <<>>)

\* CypherUtils.process_match_structure(match) and the MATCH built from it: the
\* nodes the match identifies.  cypher_utils.py is not among the sources; by
\* the documentation of set_fields a match is an integer internal id, which
\* identifies the node of that id.
MatchedNodes(ns, match) == IF Matches(ns, match) THEN {match.n} ELSE {}

\* set_fields(match, {field: value}): MATCH the node, SET the property.
SetFields(st, match, field, value) ==
    LET call(ok) == [fn |-> "set_fields", match |-> match, field |-> field,
                     value |-> value, ok |-> ok]
    IN  IF FailsNow(st)
        THEN [st EXCEPT !.calls = Append(@, call(FALSE)), !.raised = "store failure"]
        ELSE [st EXCEPT !.calls = Append(@, call(TRUE)),
                        !.nodes = [n \in DOMAIN @ |->
                                     IF n \in MatchedNodes(st.nodes, match)
                                     THEN [@[n] EXCEPT !.props = SetItem(@, field, value)]
                                     ELSE @[n]]]

\* provenance: "" stands for None (no provenance given).
Provenances == {"", "src"}

\* What an operation returned: value is import_json's list; the two counts are
\* those of import_json_dump's message.
Returned(value, nodesImported, relsImported) ==
    [status |-> "returned", value |-> value, err |-> NoRaise, reason |-> NoRaise,
     named |-> 0, nodesImported |-> nodesImported, relsImported |-> relsImported]
\* What an operation raised: err is the exception, the counts are those its
\* message states.
Raised(err, nodesImported, relsImported) ==
    [status |-> "raised", value |-> <<>>, err |-> err, reason |-> NoRaise,
     named |-> 0, nodesImported |-> nodesImported, relsImported |-> relsImported]

\* Mutant of import_json: parse_only only takes effect after the import.
import_json_parse_only_late(st, json_str, root_labels, parse_only, provenance) ==
    IF ~json_str.ok
    THEN [st |-> st, result |-> Raised("Incorrectly-formatted JSON string", 0, 0)]
    ELSE
    LET r == create_nodes_from_python_data(st, json_str.data, root_labels, 1, <<>>)
    IN  IF r.st.raised # NoRaise
        THEN [st |-> r.st, result |-> Raised(r.st.raised, 0, 0)]
        ELSE IF parse_only
        THEN [st |-> r.st, result |-> Returned(<<>>, 0, 0)]
        ELSE IF provenance # "" /\ json_str.data.kind = "obj"
        THEN LET s2 == SetFields(r.st, r.ids[1], "source", provenance)
             IN  [st |-> s2,
                  result |-> IF s2.raised # NoRaise THEN Raised(s2.raised, 0, 0)
                             ELSE Returned(r.ids, 0, 0)]
        ELSE [st |-> r.st, result |-> Returned(r.ids, 0, 0)]

\* Mutant of import_json: parse_only is looked at before the text is parsed.
import_json_parse_only_first(st, json_str, root_labels, parse_only, provenance) ==
    IF parse_only
    THEN [st |-> st, result |-> Returned(<<>>, 0, 0)]
    ELSE IF ~json_str.ok
    THEN [st |-> st, result |-> Raised("Incorrectly-formatted JSON string", 0, 0)]
    ELSE
    LET r == create_nodes_from_python_data(st, json_str.data, root_labels, 1, <<>>)
    IN  IF r.st.raised # NoRaise
        THEN [st |-> r.st, result |-> Raised(r.st.raised, 0, 0)]
        ELSE IF provenance # "" /\ json_str.data.kind = "obj"
        THEN LET s2 == SetFields(r.st, r.ids[1], "source", provenance)
             IN  [st |-> s2,
                  result |-> IF s2.raised # NoRaise THEN Raised(s2.raised, 0, 0)
                             ELSE Returned(r.ids, 0, 0)]
        ELSE [st |-> r.st, result |-> Returned(r.ids, 0, 0)]

\* Mutant of import_json: the first root is stamped whatever the top-level
\* value is.
import_json_stamping_any_root(st, json_str, root_labels, parse_only, provenance) ==
    IF ~json_str.ok
    THEN [st |-> st, result |-> Raised("Incorrectly-formatted JSON string", 0, 0)]
    ELSE IF parse_only
    THEN [st |-> st, result |-> Returned(<<>>, 0, 0)]
    ELSE
    LET r == create_nodes_from_python_data(st, json_str.data, root_labels, 1, <<>>)
    IN  IF r.st.raised # NoRaise
        THEN [st |-> r.st, result |-> Raised(r.st.raised, 0, 0)]
        ELSE IF provenance # "" /\ Len(r.ids) > 0
        THEN LET s2 == SetFields(r.st, r.ids[1], "source", provenance)
             IN  [st |-> s2,
                  result |-> IF s2.raised # NoRaise THEN Raised(s2.raised, 0, 0)
                             ELSE Returned(r.ids, 0, 0)]
        ELSE [st |-> r.st, result |-> Returned(r.ids, 0, 0)]

\* Returns [st, result].
import_json(st, json_str, root_labels, parse_only, provenance) ==
    IF ~json_str.ok
    THEN [st |-> st, result |-> Raised("Incorrectly-formatted JSON string", 0, 0)]
    ELSE IF parse_only
    THEN [st |-> st, result |-> Returned(<<>>, 0, 0)]
    ELSE
    LET r == create_nodes_from_python_data(st, json_str.data, root_labels, 1, <<>>)
    IN  IF r.st.raised # NoRaise
        THEN [st |-> r.st, result |-> Raised(r.st.raised, 0, 0)]
        ELSE IF provenance # "" /\ json_str.data.kind = "obj"
        THEN LET s2 == SetFields(r.st, r.ids[1], "source", provenance)
             IN  [st |-> s2,
                  result |-> IF s2.raised # NoRaise THEN Raised(s2.raised, 0, 0)
                             ELSE Returned(r.ids, 0, 0)]
        ELSE [st |-> r.st, result |-> Returned(r.ids, 0, 0)]

(***************************************************************************)
(* The dump restore.  A dump item is a record                              *)
(*   [isDict, type, id, labels, label, start, end]                         *)
(* whose fields say what the JSON object holds under each key.             *)
(***************************************************************************)
Absent == [t |-> "absent", n |-> 0]
\* JSON values of an "id" key: an integer, a string of digits, another string.
IntId(n) == [t |-> "int", n |-> n]
DigitsId(n) == [t |-> "numstr", n |-> n]
WordId == [t |-> "str", n |-> 0]

\* JSON values of a "start" or "end" key: an object (with or without "id"),
\* or the string "id".
NoEnd == [t |-> "absent", id |-> Absent]
EndDict(id) == [t |-> "dict", id |-> id]
EndStr == [t |-> "str", id |-> Absent]

NoLabel == [t |-> "absent", s |-> ""]
LabelStr(s) == [t |-> "str", s |-> s]

NodeRec(id, labels) ==
    [isDict |-> TRUE, type |-> "node", id |-> id, labels |-> labels,
     label |-> NoLabel, start |-> NoEnd, end |-> NoEnd]
RelRec(label, start, end) ==
    [isDict |-> TRUE, type |-> "relationship", id |-> Absent, labels |-> {},
     label |-> label, start |-> start, end |-> end]
OtherRec(type) ==
    [isDict |-> TRUE, type |-> type, id |-> Absent, labels |-> {},
     label |-> NoLabel, start |-> NoEnd, end |-> NoEnd]
NotADict ==
    [isDict |-> FALSE, type |-> "absent", id |-> Absent, labels |-> {},
     label |-> NoLabel, start |-> NoEnd, end |-> NoEnd]

\* int(x)
PyInt(x) ==
    IF x.t \in {"int", "numstr"} THEN [ok |-> TRUE, n |-> x.n, err |-> NoRaise]
    ELSE IF x.t = "str" THEN [ok |-> FALSE, n |-> 0, err |-> "ValueError"]
    ELSE [ok |-> FALSE, n |-> 0, err |-> "TypeError"]

\* "id" in x, for the value x of a "start" or "end" key: a key of the dict, a
\* substring of the string.
HasId(x) == IF x.t = "dict" THEN x.id.t # "absent" ELSE x.t = "str"

\* int(x["id"]), for the value x of a "start" or "end" key.
EndId(x) ==
    IF x.t = "absent" THEN [ok |-> FALSE, n |-> 0, err |-> "KeyError"]
    ELSE IF x.t = "str" THEN [ok |-> FALSE, n |-> 0, err |-> "TypeError"]
    ELSE IF x.id.t = "absent" THEN [ok |-> FALSE, n |-> 0, err |-> "KeyError"]
    ELSE PyInt(x.id)

\* The validation of one item: the exception it raises, NoRaise if none.
validate_item(item) ==
    IF ~item.isDict THEN "AssertionError: should be a dict"
    ELSE IF item.type # "node" /\ item.type # "relationship" THEN "bad type"
    ELSE IF item.type = "node"
    THEN IF item.id.t = "absent" THEN "lacks an id"
         ELSE IF PyInt(item.id).ok THEN NoRaise
         ELSE IF PyInt(item.id).err = "ValueError" THEN "id is not an integer"
         ELSE "TypeError"
    ELSE IF item.label.t = "absent" THEN "lacks a label"
    ELSE IF item.start.t = "absent" THEN "lacks a start value"
    ELSE IF item.end.t = "absent" THEN "lacks a end value"
    ELSE IF ~HasId(item.start) THEN "start value lacks an id"
    ELSE IF ~HasId(item.end) THEN "end value lacks an id"
    ELSE NoRaise

\* The index of the first item the validation pass rejects, 0 if there is none.
RECURSIVE validation_loop(_, _)
validation_loop(json_list, i) ==
    IF i > Len(json_list) THEN 0
    ELSE IF validate_item(json_list[i]) # NoRaise THEN i
    ELSE validation_loop(json_list, i + 1)

\* The labels the store gives a node created with the given labels: a node
\* created without any carries the label vertex.
StoredLabels(labels) == IF labels = {} THEN {"vertex"} ELSE labels

\* create_node(labels, properties): returns the dict query_extended() gives for
\* the new node.  rec is the dump item the node is created for.
CreateNode(st, labels, properties, rec) ==
    LET call(ok, ret) == [fn |-> "create_node", labels |-> labels, props |-> properties,
                          rec |-> rec, ok |-> ok, ret |-> ret]
    IN  IF FailsNow(st)
        THEN [st  |-> [st EXCEPT !.calls = Append(@, call(FALSE, RowsVal)),
                                 !.raised = "store failure"],
              ret |-> RowsVal]
        ELSE LET newId == st.nextId
             IN  [st  |-> [st EXCEPT
                             !.nodes = (newId :> [labels |-> StoredLabels(labels),
                                                   props |-> properties.kv]) @@ @,
                             !.nextId = newId + 1,
                             !.calls = Append(@, call(TRUE, NodeDict(newId)))],
                  ret |-> NodeDict(newId)]

\* The text '{handle}' of a statement is no quoted id: the text of a dict has
\* quotes of its own ({'internal_id': ..., 'neo4j_labels': [...]}), which end
\* the quoted id early, and the store rejects the statement.
Unquotable(handle) == handle.t = "nodedict"

\* link_nodes_by_ids(node_id1, node_id2, rel): MATCH (x), (y) by id, MERGE the
\* relationship.  rec is the dump item the call is made for.
LinkNodesByIds(st, node_id1, node_id2, rel, rec) ==
    LET call(ok) == [fn |-> "link_nodes_by_ids", node_id1 |-> node_id1,
                     node_id2 |-> node_id2, rel |-> rel, rec |-> rec, ok |-> ok]
    IN  IF FailsNow(st)
        THEN [st EXCEPT !.calls = Append(@, call(FALSE)), !.raised = "store failure"]
        ELSE IF Unquotable(node_id1) \/ Unquotable(node_id2)
        THEN [st EXCEPT !.calls = Append(@, call(FALSE)), !.raised = "statement rejected"]
        ELSE [st EXCEPT
                !.calls = Append(@, call(TRUE)),
                !.rels = IF Matches(st.nodes, node_id1) /\ Matches(st.nodes, node_id2)
                            /\ \A j \in 1..Len(@) : @[j] # Rel(node_id1.n, node_id2.n, rel)
                         THEN Append(@, Rel(node_id1.n, node_id2.n, rel))
                         ELSE @]

\* The node phase from the i-th item on; returns [st, shift, count].
RECURSIVE node_loop(_, _, _, _, _)
\* Mutant of node_loop: the node is counted before create_node is called.
node_loop_counting_early(st, json_list, i, id_shifting, num_nodes_imported) ==
    LET out(s, n) == [st |-> s, shift |-> id_shifting, count |-> n]
        raise(e) == out([st EXCEPT !.raised = e], num_nodes_imported)
        item == json_list[i]
    IN  IF st.raised # NoRaise \/ i > Len(json_list) THEN out(st, num_nodes_imported)
        ELSE IF ~item.isDict THEN raise("TypeError")
        ELSE IF item.type = "absent" THEN raise("KeyError")
        ELSE IF item.type # "node"
        THEN node_loop(st, json_list, i + 1, id_shifting, num_nodes_imported)
        ELSE IF item.id.t = "absent" THEN raise("KeyError")
        ELSE IF ~PyInt(item.id).ok THEN raise(PyInt(item.id).err)
        ELSE LET old_id == PyInt(item.id).n
                 c == CreateNode(st, item.labels, PropsNone, i)
             IN  IF c.st.raised # NoRaise THEN out(c.st, num_nodes_imported + 1)
                 ELSE node_loop(c.st, json_list, i + 1,
                                (old_id :> c.ret) @@ id_shifting,
                                num_nodes_imported + 1)

node_loop(st, json_list, i, id_shifting, num_nodes_imported) ==
    LET out(s) == [st |-> s, shift |-> id_shifting, count |-> num_nodes_imported]
        raise(e) == out([st EXCEPT !.raised = e])
        item == json_list[i]
    IN  IF st.raised # NoRaise \/ i > Len(json_list) THEN out(st)
        ELSE IF ~item.isDict THEN raise("TypeError")
        ELSE IF item.type = "absent" THEN raise("KeyError")
        ELSE IF item.type # "node"
        THEN node_loop(st, json_list, i + 1, id_shifting, num_nodes_imported)
        ELSE IF item.id.t = "absent" THEN raise("KeyError")
        ELSE IF ~PyInt(item.id).ok THEN raise(PyInt(item.id).err)
        ELSE LET old_id == PyInt(item.id).n
                 c == CreateNode(st, item.labels, PropsNone, i)
             IN  IF c.st.raised # NoRaise THEN out(c.st)
                 ELSE node_loop(c.st, json_list, i + 1,
                                (old_id :> c.ret) @@ id_shifting,
                                num_nodes_imported + 1)

\* The relationship phase from the i-th item on; returns [st, count, named]:
\* named is the id the dangling-reference message names.
RECURSIVE rel_loop(_, _, _, _, _)
\* Mutant of rel_loop: the end id is looked up in id_shifting without the check
\* that it is there (a KeyError).
rel_loop_end_unchecked(st, json_list, i, id_shifting, num_rels_imported) ==
    LET out(s, n) == [st |-> s, count |-> num_rels_imported, named |-> n]
        raise(e) == out([st EXCEPT !.raised = e], 0)
        item == json_list[i]
    IN  IF st.raised # NoRaise \/ i > Len(json_list) THEN out(st, 0)
        ELSE IF ~item.isDict THEN raise("TypeError")
        ELSE IF item.type = "absent" THEN raise("KeyError")
        ELSE IF item.type # "relationship"
        THEN rel_loop(st, json_list, i + 1, id_shifting, num_rels_imported)
        ELSE IF item.label.t = "absent" THEN raise("KeyError")
        ELSE IF ~EndId(item.start).ok THEN raise(EndId(item.start).err)
        ELSE IF ~EndId(item.end).ok THEN raise(EndId(item.end).err)
        ELSE
        LET start_id_original == EndId(item.start).n
            end_id_original == EndId(item.end).n
        IN  IF start_id_original \notin DOMAIN id_shifting
            THEN out([st EXCEPT !.raised = "no node with the start id was imported"],
                     start_id_original)
            ELSE IF end_id_original \notin DOMAIN id_shifting
            THEN raise("KeyError")
            ELSE LET s2 == LinkNodesByIds(st, id_shifting[start_id_original],
                                          id_shifting[end_id_original], item.label.s, i)
                 IN  IF s2.raised # NoRaise
                     THEN out(s2, 0)
                     ELSE rel_loop(s2, json_list, i + 1, id_shifting,
                                   num_rels_imported + 1)

\* Mutant of rel_loop: the relationship is counted before link_nodes_by_ids is
\* called.
rel_loop_counting_early(st, json_list, i, id_shifting, num_rels_imported) ==
    LET out(s, n) == [st |-> s, count |-> num_rels_imported, named |-> n]
        raise(e) == out([st EXCEPT !.raised = e], 0)
        item == json_list[i]
    IN  IF st.raised # NoRaise \/ i > Len(json_list) THEN out(st, 0)
        ELSE IF ~item.isDict THEN raise("TypeError")
        ELSE IF item.type = "absent" THEN raise("KeyError")
        ELSE IF item.type # "relationship"
        THEN rel_loop(st, json_list, i + 1, id_shifting, num_rels_imported)
        ELSE IF item.label.t = "absent" THEN raise("KeyError")
        ELSE IF ~EndId(item.start).ok THEN raise(EndId(item.start).err)
        ELSE IF ~EndId(item.end).ok THEN raise(EndId(item.end).err)
        ELSE
        LET start_id_original == EndId(item.start).n
            end_id_original == EndId(item.end).n
        IN  IF start_id_original \notin DOMAIN id_shifting
            THEN out([st EXCEPT !.raised = "no node with the start id was imported"],
                     start_id_original)
            ELSE IF end_id_original \notin DOMAIN id_shifting
            THEN out([st EXCEPT !.raised = "no node with the end id was imported"],
                     start_id_original)
            ELSE LET s2 == LinkNodesByIds(st, id_shifting[start_id_original],
                                          id_shifting[end_id_original], item.label.s, i)
                 IN  IF s2.raised # NoRaise
                     THEN [st |-> s2, count |-> num_rels_imported + 1, named |-> 0]
                     ELSE rel_loop(s2, json_list, i + 1, id_shifting,
                                   num_rels_imported + 1)

rel_loop(st, json_list, i, id_shifting, num_rels_imported) ==
    LET out(s, n) == [st |-> s, count |-> num_rels_imported, named |-> n]
        raise(e) == out([st EXCEPT !.raised = e], 0)
        item == json_list[i]
    IN  IF st.raised # NoRaise \/ i > Len(json_list) THEN out(st, 0)
        ELSE IF ~item.isDict THEN raise("TypeError")
        ELSE IF item.type = "absent" THEN raise("KeyError")
        ELSE IF item.type # "relationship"
        THEN rel_loop(st, json_list, i + 1, id_shifting, num_rels_imported)
        ELSE IF item.label.t = "absent" THEN raise("KeyError")
        ELSE IF ~EndId(item.start).ok THEN raise(EndId(item.start).err)
        ELSE IF ~EndId(item.end).ok THEN raise(EndId(item.end).err)
        ELSE
        LET start_id_original == EndId(item.start).n
            end_id_original == EndId(item.end).n
        IN  IF start_id_original \notin DOMAIN id_shifting
            THEN out([st EXCEPT !.raised = "no node with the start id was imported"],
                     start_id_original)
            ELSE IF end_id_original \notin DOMAIN id_shifting
            THEN out([st EXCEPT !.raised = "no node with the end id was imported"],
                     start_id_original)
            ELSE LET s2 == LinkNodesByIds(st, id_shifting[start_id_original],
                                          id_shifting[end_id_original], item.label.s, i)
                 IN  IF s2.raised # NoRaise THEN out(s2, 0)
                     ELSE rel_loop(s2, json_list, i + 1, id_shifting,
                                   num_rels_imported + 1)

\* Mutant of import_json_dump: a failure of the relationship phase takes the
\* nodes of the node phase back out of the store.
import_json_dump_rolling_back(st, json_str, extended_validation) ==
    IF ~json_str.ok
    THEN [st |-> st, result |-> Raised("incorrectly-formatted JSON string", 0, 0)]
    ELSE IF ~json_str.isList
    THEN [st |-> st, result |-> Raised("the JSON string does not represent a list", 0, 0)]
    ELSE
    LET json_list == json_str.items
        bad == IF extended_validation THEN validation_loop(json_list, 1) ELSE 0
    IN  IF bad # 0
        THEN [st |-> st,
              result |-> [Raised("Nothing imported", 0, 0) EXCEPT
                            !.reason = validate_item(json_list[bad]),
                            !.named = bad - 1]]
        ELSE
        LET n == node_loop(st, json_list, 1, <<>>, 0)
        IN  IF n.st.raised # NoRaise
            THEN [st |-> n.st,
                  result |-> [Raised("INTERRUPTED", n.count, 0) EXCEPT
                                !.reason = n.st.raised]]
            ELSE
            LET r == rel_loop(n.st, json_list, 1, n.shift, 0)
            IN  IF r.st.raised # NoRaise
                THEN [st |-> [r.st EXCEPT !.nodes = st.nodes, !.rels = st.rels],
                      result |-> [Raised("INTERRUPTED", n.count, r.count) EXCEPT
                                    !.reason = r.st.raised, !.named = r.named]]
                ELSE [st |-> r.st, result |-> Returned(<<>>, n.count, r.count)]

\* Returns [st, result].
import_json_dump(st, json_str, extended_validation) ==
    IF ~json_str.ok
    THEN [st |-> st, result |-> Raised("incorrectly-formatted JSON string", 0, 0)]
    ELSE IF ~json_str.isList
    THEN [st |-> st, result |-> Raised("the JSON string does not represent a list", 0, 0)]
    ELSE
    LET json_list == json_str.items
        bad == IF extended_validation THEN validation_loop(json_list, 1) ELSE 0
    IN  IF bad # 0
        THEN [st |-> st,
              result |-> [Raised("Nothing imported", 0, 0) EXCEPT
                            !.reason = validate_item(json_list[bad]),
                            !.named = bad - 1]]
        ELSE
        LET n == node_loop(st, json_list, 1, <<>>, 0)
        IN  IF n.st.raised # NoRaise
            THEN [st |-> n.st,
                  result |-> [Raised("INTERRUPTED", n.count, 0) EXCEPT
                                !.reason = n.st.raised]]
            ELSE
            LET r == rel_loop(n.st, json_list, 1, n.shift, 0)
            IN  IF r.st.raised # NoRaise
                THEN [st |-> r.st,
                      result |-> [Raised("INTERRUPTED", n.count, r.count) EXCEPT
                                    !.reason = r.st.raised, !.named = r.named]]
                ELSE [st |-> r.st, result |-> Returned(<<>>, n.count, r.count)]

\* The dump items of the model.
DumpItems ==
    { NodeRec(IntId(1), {"A"}), NodeRec(DigitsId(2), {}),
      NodeRec(WordId, {}), NodeRec(Absent, {}),
      RelRec(LabelStr("L"), EndDict(IntId(1)), EndDict(IntId(2))),
      RelRec(LabelStr("L"), EndDict(IntId(1)), EndDict(IntId(1))),
      RelRec(LabelStr("L"), EndDict(IntId(1)), EndDict(IntId(99))),
      RelRec(LabelStr("L"), EndDict(IntId(99)), EndDict(IntId(1))),
      RelRec(NoLabel, EndDict(IntId(1)), EndDict(IntId(1))),
      RelRec(LabelStr("L"), NoEnd, EndDict(IntId(1))),
      RelRec(LabelStr("L"), EndDict(IntId(1)), NoEnd),
      RelRec(LabelStr("L"), EndDict(Absent), EndDict(IntId(1))),
      RelRec(LabelStr("L"), EndDict(IntId(1)), EndDict(Absent)),
      RelRec(LabelStr("L"), EndStr, EndDict(IntId(1))),
      RelRec(LabelStr("L"), EndDict(WordId), EndDict(IntId(1))),
      OtherRec("path"), NotADict }

RECURSIVE SeqsUpTo(_, _)
\* The sequences of at most n elements of S.
SeqsUpTo(S, n) ==
    IF n = 0 THEN {<<>>}
    ELSE SeqsUpTo(S, n - 1)
         \cup { Append(s, x) : s \in { t \in SeqsUpTo(S, n - 1) : Len(t) = n - 1 }, x \in S }

\* A dump text: one json.loads rejects, the text of a JSON value that is no
\* list, or the text of a list of items.
DumpMalformed == [ok |-> FALSE, isList |-> FALSE, items |-> <<>>]
DumpNotAList == [ok |-> TRUE, isList |-> FALSE, items |-> <<>>]
DumpOf(items) == [ok |-> TRUE, isList |-> TRUE, items |-> items]
DumpTexts ==
    {DumpMalformed, DumpNotAList} \cup { DumpOf(l) : l \in SeqsUpTo(DumpItems, MaxRecs) }

(***************************************************************************)
(* Deleting nodes by label.  A labels argument is None, a string or a list *)
(* of strings; l holds its labels as a list.                               *)
(***************************************************************************)
ArgNone == [t |-> "none", l |-> <<>>]
ArgStr(s) == [t |-> "str", l |-> <<s>>]
ArgList(l) == [t |-> "list", l |-> l]

\* The elements of the set S as a list, in some order.
RECURSIVE SeqOf(_)
SeqOf(S) ==
    IF S = {} THEN <<>>
    ELSE LET x == CHOOSE y \in S : TRUE IN <<x>> \o SeqOf(S \ {x})

\* [label for result in results for label in result['label']]
RECURSIVE LabelsOfRows(_)
LabelsOfRows(results) ==
    IF results = <<>> THEN <<>>
    ELSE SeqOf(Head(results)) \o LabelsOfRows(Tail(results))

\* A query of the delete operations, as logged in st.calls.
QueryCall(stmt, label) == [fn |-> "query", stmt |-> stmt, label |-> label, ok |-> TRUE]

\* get_labels(): MATCH (n) RETURN DISTINCT labels(n) AS label, flattened.
\* Returns [st, ret].
get_labels(st) ==
    [st  |-> [st EXCEPT !.calls = Append(@, QueryCall("distinct labels", ""))],
     ret |-> LabelsOfRows(SeqOf({ st.nodes[n].labels : n \in DOMAIN st.nodes }))]

\* DETACH DELETE of the nodes of the set gone: they go with their relationships.
DetachDelete(st, gone, call) ==
    [st EXCEPT !.nodes = [n \in DOMAIN @ \ gone |-> @[n]],
               !.rels = SelectSeq(@, LAMBDA r : r.from \notin gone /\ r.to \notin gone),
               !.calls = Append(@, call)]

\* The loop of delete_nodes_by_label over delete_labels from the i-th on.
RECURSIVE delete_loop(_, _, _, _)
delete_loop(st, delete_labels, i, keep_labels) ==
    IF i > Len(delete_labels) THEN st
    ELSE LET label == delete_labels[i]
         IN  IF \E j \in 1..Len(keep_labels) : keep_labels[j] = label
             THEN delete_loop(st, delete_labels, i + 1, keep_labels)
             ELSE delete_loop(
                      DetachDelete(st, { n \in DOMAIN st.nodes : label \in st.nodes[n].labels },
                                   QueryCall("detach delete", label)),
                      delete_labels, i + 1, keep_labels)

\* delete_nodes_by_label(delete_labels, keep_labels); returns the st after it.
delete_nodes_by_label(st, delete_labels, keep_labels) ==
    IF delete_labels.t = "none" /\ keep_labels.t = "none"
    THEN DetachDelete(st, DOMAIN st.nodes, QueryCall("detach delete all", ""))
    ELSE LET g == IF delete_labels.l = <<>> THEN get_labels(st)
                  ELSE [st |-> st, ret |-> delete_labels.l]
         IN  delete_loop(g.st, g.ret, 1, keep_labels.l)

\* empty_dbase(keep_labels), without dropping indexes.
empty_dbase(st, keep_labels) == delete_nodes_by_label(st, ArgNone, keep_labels)

(***************************************************************************)
(* The state machine: one operation is called on the store.                *)
(***************************************************************************)
NoOp == [name |-> "none"]

Init ==
    /\ nodes = <<>>
    /\ nextId = 1
    /\ rels = <<>>
    /\ op = NoOp
    /\ calls = <<>>
    /\ result = [status |-> "none", value |-> <<>>, err |-> NoRaise, reason |-> NoRaise,
                 named |-> 0, nodesImported |-> 0, relsImported |-> 0]

Finish(r) ==
    /\ nodes' = r.st.nodes
    /\ nextId' = r.st.nextId
    /\ rels' = r.st.rels
    /\ calls' = r.st.calls
    /\ result' = r.result

ImportJson ==
    /\ op = NoOp
    /\ \E json_str \in JsonTexts, root_labels \in RootLabels,
          parse_only \in BOOLEAN, provenance \in Provenances, failAt \in 0..MaxFail :
          /\ op' = [name |-> "import_json", json_str |-> json_str,
                    root_labels |-> root_labels, parse_only |-> parse_only,
                    provenance |-> provenance, failAt |-> failAt]
          /\ Finish(import_json(StartOf(failAt), json_str, root_labels,
                                parse_only, provenance))

ImportJsonDump ==
    /\ op = NoOp
    /\ \E json_str \in DumpTexts, extended_validation \in BOOLEAN, failAt \in 0..MaxFail :
          /\ op' = [name |-> "import_json_dump", json_str |-> json_str,
                    extended_validation |-> extended_validation, failAt |-> failAt]
          /\ Finish(import_json_dump(StartOf(failAt), json_str, extended_validation))

\* The primitives called directly, as the tests do, on the store that earlier
\* direct calls built.  The value of the result stands for what the call
\* returned; before is the store the call found.
StoreLabels == {"A", "B"}
Store == [nodes |-> nodes, rels |-> rels]
DirectNames == {"none", "create_node", "create_node_with_links"}

\* The links of a direct create_node_with_links call: to node 1, to a node that
\* is not there, or to both, in either order.
DirectLinks ==
    LET a == Link(IdVal(1), "r")
        b == Link(IdVal(99), "r")
    IN  {<<>>, <<a>>, <<b>>, <<a, b>>, <<b, a>>}

LabelArgs ==
    {ArgNone, ArgStr("A"), ArgList(<<>>), ArgList(<<"B">>), ArgList(<<"A", "B">>)}

CreateNodeCall ==
    /\ op.name \in DirectNames
    /\ nextId <= MaxNodes
    /\ \E labels \in SUBSET StoreLabels :
          LET c == CreateNode(StartOf(0), labels, PropsNone, 0)
          IN  /\ op' = [name |-> "create_node", labels |-> labels, before |-> Store]
              /\ Finish([st |-> c.st, result |-> Returned(<<c.ret>>, 0, 0)])

CreateNodeWithLinksCall ==
    /\ op.name \in DirectNames
    /\ nextId <= MaxNodes
    /\ \E labels \in StoreLabels, links \in DirectLinks :
          LET c == CreateNodeWithLinks(StartOf(0), labels, PropsNone, links, <<>>)
          IN  /\ op' = [name |-> "create_node_with_links", labels |-> labels,
                        links |-> links, before |-> Store]
              /\ Finish([st |-> c.st, result |-> Returned(<<c.ret>>, 0, 0)])

DeleteNodesByLabelCall ==
    /\ op.name \in DirectNames
    /\ \E delete_labels \in LabelArgs, keep_labels \in LabelArgs :
          /\ op' = [name |-> "delete_nodes_by_label", delete_labels |-> delete_labels,
                    keep_labels |-> keep_labels, before |-> Store]
          /\ Finish([st |-> delete_nodes_by_label(StartOf(0), delete_labels, keep_labels),
                     result |-> Returned(<<>>, 0, 0)])

EmptyDbaseCall ==
    /\ op.name \in DirectNames
    /\ \E keep_labels \in LabelArgs :
          /\ op' = [name |-> "empty_dbase", keep_labels |-> keep_labels, before |-> Store]
          /\ Finish([st |-> empty_dbase(StartOf(0), keep_labels),
                     result |-> Returned(<<>>, 0, 0)])

Next ==
    \/ ImportJson
    \/ ImportJsonDump
    \/ CreateNodeCall
    \/ CreateNodeWithLinksCall
    \/ DeleteNodesByLabelCall
    \/ EmptyDbaseCall

Spec == Init /\ [][Next]_vars

(***************************************************************************)
(* Vocabulary of the properties.                                           *)
(***************************************************************************)
IsImport == op.name = "import_json"
IsRestore == op.name = "import_json_dump"
\* The import ran: the text parsed and parse_only was off.
ImportRan == IsImport /\ op.json_str.ok /\ ~op.parse_only
\* The restore got a list of items.
RestoreOfList == IsRestore /\ op.json_str.ok /\ op.json_str.isList
\* No primitive call failed.
NoFailure == \A i \in 1..Len(calls) : calls[i].ok

CallsOf(fn) == { i \in 1..Len(calls) : calls[i].fn = fn }
NodeCalls == CallsOf("create_node_with_links")

\* p is a proper prefix of q: q is a place below p in the document.
Below(p, q) == Len(p) < Len(q) /\ SubSeq(q, 1, Len(p)) = p

\* C1: in a tree import the node-creation calls are issued in postorder (the
\* call for a value comes after the calls for every value below it), and every
\* link handed to create_node_with_links carries a value that an earlier,
\* completed node-creation call for a value below it returned; every
\* relationship of the store joins two nodes of the store.
C1_Postorder ==
    IsImport =>
        /\ \A i \in NodeCalls :
              /\ \A j \in NodeCalls : Below(calls[i].path, calls[j].path) => j < i
              /\ \A k \in 1..Len(calls[i].links) :
                    \E j \in NodeCalls :
                        /\ j < i
                        /\ calls[j].ok
                        /\ Below(calls[i].path, calls[j].path)
                        /\ calls[j].ret = calls[i].links[k].internal_id
        /\ \A k \in 1..Len(rels) : {rels[k].from, rels[k].to} \subseteq DOMAIN nodes

\* A parent with two links, one of them to a node that has a link itself.
C1_Witness ==
    /\ IsImport
    /\ \E i, j \in NodeCalls :
          /\ calls[i].ok
          /\ Len(calls[i].links) = 2
          /\ Len(calls[j].links) = 1
          /\ Below(calls[i].path, calls[j].path)

\* C2: the texts "null" and "[]" import to the empty list without any
\* primitive call, whatever the root labels.
C2_EmptyImport ==
    (IsImport /\ op.json_str \in {TextOf(JNull), TextOf(JArr(<<>>))}) =>
        /\ result.status = "returned"
        /\ result.value = <<>>
        /\ calls = <<>>
        /\ nodes = <<>>

C2_Witness ==
    /\ IsImport
    /\ op.json_str = TextOf(JNull)
    /\ ~op.parse_only
    /\ op.root_labels = "R"
    /\ result.status = "returned"

\* C3 (as claimed): importing a top-level literal v under labels L issues one
\* node-creation call, with labels L, properties {value: v} and no links, and
\* returns the one-element list of the id of the node created.
C3_LiteralAsClaimed ==
    (ImportRan /\ is_literal(op.json_str.data) /\ NoFailure) =>
        /\ Len(calls) = 1
        /\ calls[1].fn = "create_node_with_links"
        /\ calls[1].labels = {op.root_labels}
        /\ calls[1].props = Props(<<Entry("value", op.json_str.data)>>)
        /\ calls[1].links = <<>>
        /\ result.status = "returned"
        /\ \E n \in DOMAIN nodes : DOMAIN nodes = {n} /\ result.value = <<IdVal(n)>>

\* The document places of the items of a top-level array that yield a root.
RootItems(items) == { i \in 1..Len(items) : items[i].kind # "null" }

\* C4: a top-level array gets no grouping node; the result lists, in item
\* order, what the node-creation call for each item returned; no relationship
\* joins nodes of different items.  (Node n is created by the n-th call.)
C4_TopLevelArray ==
    (ImportRan /\ op.json_str.data.kind = "arr" /\ NoFailure) =>
        LET items == op.json_str.data.items
            roots == RootItems(items)
        IN  /\ result.status = "returned"
            /\ \A i \in NodeCalls : calls[i].path # <<>>
            /\ Len(result.value) = Cardinality(roots)
            /\ \A i \in roots :
                  \E c \in NodeCalls :
                      /\ calls[c].path = <<i>>
                      /\ calls[c].labels = {op.root_labels}
                      /\ result.value[Cardinality({j \in roots : j <= i})] = calls[c].ret
            /\ \A k \in 1..Len(rels) :
                  calls[rels[k].from].path[1] = calls[rels[k].to].path[1]
            /\ items = <<JInt(1), JInt(2)>> =>
                  /\ rels = <<>>
                  /\ nodes = << [labels |-> {op.root_labels},
                                 props |-> <<Entry("value", JInt(1))>>],
                                [labels |-> {op.root_labels},
                                 props |-> <<Entry("value", JInt(2))>>] >>

C4_Witness ==
    /\ ImportRan
    /\ op.json_str.data = JArr(<<JInt(1), JInt(2)>>)
    /\ op.root_labels = "N"
    /\ Len(result.value) = 2
    /\ Len(calls) = 2

\* C5 (as claimed): for each entry k of the imported Object whose value is a
\* non-empty array there is a grouping node labelled k without properties, the
\* Object's node has exactly one link for k, and the grouping node has the
\* links to the items' nodes; {"items": [1, 2]} gives four nodes.
C5_GroupingAsClaimed ==
    (ImportRan /\ op.json_str.data.kind = "obj" /\ NoFailure) =>
        LET entries == op.json_str.data.entries
        IN  /\ \A e \in 1..Len(entries) :
                  (entries[e].v.kind = "arr" /\ Len(entries[e].v.items) > 0) =>
                      /\ \E c \in NodeCalls :
                            /\ calls[c].path = <<e>>
                            /\ calls[c].labels = {entries[e].k}
                            /\ calls[c].props = PropsNone
                      /\ \A c \in NodeCalls :
                            calls[c].path = <<>> =>
                                Cardinality({k \in 1..Len(calls[c].links) :
                                    calls[c].links[k].rel_name = entries[e].k}) = 1
            /\ entries = <<Entry("items", JArr(<<JInt(1), JInt(2)>>))>> =>
                  Cardinality(NodeCalls) = 4

(***************************************************************************)
(* Vocabulary of the restore's properties.                                 *)
(***************************************************************************)
\* A node record with an id int() accepts, or a relationship record with a
\* label and with start and end objects whose ids int() accepts.
WellFormed(item) ==
    /\ item.isDict
    /\ \/ item.type = "node" /\ PyInt(item.id).ok
       \/ /\ item.type = "relationship"
          /\ item.label.t # "absent"
          /\ item.start.t = "dict" /\ PyInt(item.start.id).ok
          /\ item.end.t = "dict" /\ PyInt(item.end.id).ok
AllWellFormed(l) == \A i \in 1..Len(l) : WellFormed(l[i])

NodeRecs(l) == { i \in 1..Len(l) : l[i].isDict /\ l[i].type = "node" }
RelRecs(l) == { i \in 1..Len(l) : l[i].isDict /\ l[i].type = "relationship" }
\* The original ids of the node records of a well-formed dump.
NodeIds(l) == { PyInt(l[i].id).n : i \in NodeRecs(l) }
\* The relationship record l[i] names an id that no node record has.
Dangling(l, i) ==
    \/ PyInt(l[i].start.id).n \notin NodeIds(l)
    \/ PyInt(l[i].end.id).n \notin NodeIds(l)
\* The last node record with the original id n.
LastNodeRec(l, n) ==
    CHOOSE i \in NodeRecs(l) :
        /\ PyInt(l[i].id).n = n
        /\ \A j \in NodeRecs(l) : PyInt(l[j].id).n = n => j <= i
\* The call of fn made for the record rec.
CallFor(fn, rec) == CHOOSE c \in CallsOf(fn) : calls[c].rec = rec
DanglingReasons ==
    {"no node with the start id was imported", "no node with the end id was imported"}

\* C6 (as claimed): restoring a well-formed dump without dangling relationship
\* and without store failure succeeds with one create_node call per node record
\* and one link_nodes_by_ids call per relationship record; each link call is
\* made with the values create_node returned for the node records that carry
\* the relationship's start and end ids, and the counts reported are the
\* numbers of node and of relationship records.
C6_RoundTripAsClaimed ==
    (RestoreOfList /\ AllWellFormed(op.json_str.items) /\ op.failAt = 0
       /\ \A i \in RelRecs(op.json_str.items) : ~Dangling(op.json_str.items, i)) =>
        LET l == op.json_str.items
        IN  /\ result.status = "returned"
            /\ result.nodesImported = Cardinality(NodeRecs(l))
            /\ result.relsImported = Cardinality(RelRecs(l))
            /\ Len(calls) = Len(l)
            /\ \A i \in NodeRecs(l) :
                  Cardinality({c \in CallsOf("create_node") : calls[c].rec = i}) = 1
            /\ \A i \in RelRecs(l) :
                  /\ Cardinality({c \in CallsOf("link_nodes_by_ids") : calls[c].rec = i}) = 1
                  /\ LET c == CallFor("link_nodes_by_ids", i)
                         a == CallFor("create_node", LastNodeRec(l, PyInt(l[i].start.id).n))
                         b == CallFor("create_node", LastNodeRec(l, PyInt(l[i].end.id).n))
                     IN  /\ calls[c].node_id1 = calls[a].ret
                         /\ calls[c].node_id2 = calls[b].ret
                         /\ calls[c].rel = l[i].label.s
                         /\ a < c /\ b < c

\* C7: restoring a well-formed dump with a dangling relationship record fails,
\* absent any store failure, with the dangling-reference error, and
\* link_nodes_by_ids is not called for a dangling record; a dump of one such
\* record fails with the counts 0 and 0 and without any primitive call.
C7_Dangling ==
    (RestoreOfList /\ AllWellFormed(op.json_str.items) /\ NoFailure
       /\ \E i \in RelRecs(op.json_str.items) : Dangling(op.json_str.items, i)) =>
        LET l == op.json_str.items
        IN  /\ result.status = "raised"
            /\ result.reason \in DanglingReasons
            /\ \A c \in CallsOf("link_nodes_by_ids") : ~Dangling(l, calls[c].rec)
            /\ Len(l) = 1 =>
                  /\ result.nodesImported = 0
                  /\ result.relsImported = 0
                  /\ calls = <<>>
                  /\ nodes = <<>>

\* A node record, then a relationship from it to the missing id 99.
C7_Witness ==
    /\ RestoreOfList
    /\ op.json_str.items = << NodeRec(IntId(1), {"A"}),
                              RelRec(LabelStr("L"), EndDict(IntId(1)), EndDict(IntId(99))) >>
    /\ result.status = "raised"
    /\ result.nodesImported = 1
    /\ Len(calls) = 1

\* C8: when the N-th create_node call of a restore fails, the restore fails
\* reporting N - 1 nodes and 0 relationships, and that call is the last
\* primitive call: no link call and no further create_node call.
C8_NodeFailure ==
    IsRestore =>
        \A c \in CallsOf("create_node") :
            ~calls[c].ok =>
                /\ result.status = "raised"
                /\ result.nodesImported = Cardinality({d \in CallsOf("create_node") : d <= c}) - 1
                /\ result.relsImported = 0
                /\ c = Len(calls)
                /\ CallsOf("link_nodes_by_ids") = {}
                /\ Cardinality(DOMAIN nodes) = result.nodesImported

\* The third create_node call fails.
C8_Witness ==
    /\ IsRestore
    /\ Len(calls) = 3
    /\ calls[3].fn = "create_node"
    /\ ~calls[3].ok
    /\ result.nodesImported = 2

\* The relationship records the relationship phase got through before it
\* failed: the first n of the list.
FirstRelRecs(l, n) == { i \in RelRecs(l) : Cardinality({j \in RelRecs(l) : j < i}) < n }

\* C9: when the M-th link_nodes_by_ids call fails, or the M-th relationship
\* record is the one found dangling, the restore fails reporting every node
\* record as imported and M - 1 relationships; the link calls made are those for
\* the first M - 1 relationship records (and the failed M-th), none for a later
\* record.
C9_RelFailure ==
    (RestoreOfList
       /\ \/ result.reason \in DanglingReasons
          \/ \E c \in CallsOf("link_nodes_by_ids") : ~calls[c].ok) =>
        LET l == op.json_str.items
            okLinks == { c \in CallsOf("link_nodes_by_ids") : calls[c].ok }
            m == Cardinality(okLinks) + 1
            mth == FirstRelRecs(l, m) \ FirstRelRecs(l, m - 1)
        IN  /\ result.status = "raised"
            /\ result.nodesImported = Cardinality(NodeRecs(l))
            /\ result.relsImported = m - 1
            /\ { calls[c].rec : c \in okLinks } = FirstRelRecs(l, m - 1)
            /\ Cardinality(mth) = 1
            /\ \A c \in CallsOf("link_nodes_by_ids") :
                  ~calls[c].ok => calls[c].rec \in mth /\ c = Len(calls)
            /\ result.reason \in DanglingReasons =>
                  /\ \A i \in mth : Dangling(l, i)
                  /\ CallsOf("link_nodes_by_ids") = okLinks

\* The first link call fails, after one node; a relationship record follows.
C9_Witness ==
    /\ RestoreOfList
    /\ RelRecs(op.json_str.items) = {2, 3}
    /\ Len(calls) = 2
    /\ calls[2].fn = "link_nodes_by_ids"
    /\ ~calls[2].ok
    /\ result.nodesImported = 1
    /\ result.relsImported = 0

\* The first relationship record is dangling; another one follows.
C9_WitnessDangling ==
    /\ RestoreOfList
    /\ result.reason \in DanglingReasons
    /\ Cardinality(RelRecs(op.json_str.items)) = 2
    /\ result.nodesImported = 1
    /\ Len(calls) = 1

\* The records the validation is claimed to reject: a type other than node or
\* relationship, a node record without an id or with an id that is no integer,
\* a relationship record without label, start, end, start.id or end.id.
ClaimedInvalid(item) ==
    /\ item.isDict
    /\ \/ item.type \notin {"node", "relationship"}
       \/ item.type = "node" /\ (item.id.t = "absent" \/ PyInt(item.id).err = "ValueError")
       \/ /\ item.type = "relationship"
          /\ \/ item.label.t = "absent"
             \/ item.start.t = "absent"
             \/ item.end.t = "absent"
             \/ item.start.t # "dict" \/ item.start.id.t = "absent"
             \/ item.end.t # "dict" \/ item.end.id.t = "absent"

\* C10 (as claimed): with extended validation, a dump holding such a record
\* anywhere fails without any create_node or link_nodes_by_ids call.
C10_ValidationAsClaimed ==
    (RestoreOfList /\ op.extended_validation
       /\ \E i \in 1..Len(op.json_str.items) : ClaimedInvalid(op.json_str.items[i])) =>
        /\ result.status = "raised"
        /\ calls = <<>>
        /\ nodes = <<>>

(***************************************************************************)
(* Vocabulary of the tree import's further properties.                     *)
(***************************************************************************)
\* The value at the place p of the document v.
RECURSIVE ValueAt(_, _)
ValueAt(v, p) ==
    IF p = <<>> THEN v
    ELSE ValueAt(IF v.kind = "obj" THEN v.entries[p[1]].v ELSE v.items[p[1]], Tail(p))

IsEmptyArray(v) == v.kind = "arr" /\ Len(v.items) = 0

\* C11 (as claimed): an empty array causes no node to be created wherever it
\* stands in the document: no node-creation call is issued for the place of an
\* empty array, and importing the text of an array whose items are all empty
\* arrays returns [].
C11_EmptyArrayAsClaimed ==
    ImportRan =>
        /\ \A c \in NodeCalls : ~IsEmptyArray(ValueAt(op.json_str.data, calls[c].path))
        /\ (/\ op.json_str.data.kind = "arr"
            /\ \A i \in 1..Len(op.json_str.data.items) :
                  IsEmptyArray(op.json_str.data.items[i])) =>
                result.status = "returned" /\ result.value = <<>>

\* C12: import_json with parse_only on a text that parses returns [] and issues
\* no node-creation, link or property-set call, with or without provenance; the
\* store is as it was.
C12_ParseOnly ==
    (IsImport /\ op.json_str.ok /\ op.parse_only) =>
        /\ result.status = "returned"
        /\ result.value = <<>>
        /\ calls = <<>>
        /\ nodes = <<>> /\ rels = <<>> /\ nextId = 1

\* A nested Object parsed only, with a provenance given.
C12_Witness ==
    /\ IsImport
    /\ op.parse_only
    /\ op.provenance = "src"
    /\ op.json_str = TextOf(JObj(<<Entry("x", JObj(<<Entry("x", JInt(1))>>))>>))
    /\ result.status = "returned"

\* C13: when the text does not parse, import_json and import_json_dump raise
\* and issue no primitive call, whatever parse_only and extended_validation
\* are; nothing is imported.
C13_Malformed ==
    ((IsImport \/ IsRestore) /\ ~op.json_str.ok) =>
        /\ result.status = "raised"
        /\ result.err \in {"Incorrectly-formatted JSON string",
                           "incorrectly-formatted JSON string"}
        /\ calls = <<>>
        /\ nodes = <<>> /\ rels = <<>> /\ nextId = 1
        /\ result.nodesImported = 0 /\ result.relsImported = 0

\* A text that does not parse, given to import_json in parse_only mode.
C13_Witness ==
    /\ IsImport
    /\ op.json_str = Malformed
    /\ op.parse_only
    /\ result.status = "raised"

\* A text that does not parse, given to import_json_dump without validation.
C13_WitnessDump ==
    /\ IsRestore
    /\ op.json_str = DumpMalformed
    /\ ~op.extended_validation
    /\ result.status = "raised"

\* The node-creation call for the whole document.
RootCalls == { c \in NodeCalls : calls[c].path = <<>> }

\* C14: a tree import whose node-creation calls all succeed makes one set_fields
\* call if the top-level value is an Object and a provenance is given, and none
\* otherwise (top-level array, literal or null, or no provenance).  The call
\* sets source to the provenance, is made for the value the root's
\* node-creation call returned, which is the one the import returns, and comes
\* last, after every node-creation call.
C14_Provenance ==
    ImportRan =>
        LET sf == CallsOf("set_fields")
        IN  /\ (\A c \in NodeCalls : calls[c].ok) =>
                  Cardinality(sf) =
                      IF op.json_str.data.kind = "obj" /\ op.provenance # "" THEN 1 ELSE 0
            /\ \A c \in sf :
                  /\ c = Len(calls)
                  /\ calls[c].field = "source"
                  /\ calls[c].value = op.provenance
                  /\ \E r \in RootCalls :
                        r < c /\ calls[r].ok /\ calls[c].match = calls[r].ret
                  /\ calls[c].ok =>
                        result.status = "returned" /\ result.value = <<calls[c].match>>

\* A nested Object imported with a provenance: two nodes, then the stamp.
C14_Witness ==
    /\ ImportRan
    /\ op.json_str = TextOf(JObj(<<Entry("x", JObj(<<Entry("x", JInt(1))>>))>>))
    /\ op.provenance = "src"
    /\ Len(calls) = 3
    /\ calls[3].fn = "set_fields"
    /\ calls[3].ok

(***************************************************************************)
(* Vocabulary of the primitives' properties.                               *)
(***************************************************************************)
IsCreateWithLinks == op.name = "create_node_with_links"
\* The node the node-creation call c of the operation created, c being a call
\* that succeeded: the nodes of an operation get consecutive ids.
NodeOfCall(c) == nextId - Cardinality({ d \in NodeCalls : d >= c /\ calls[d].ok })

\* C15 (as claimed): a create_node_with_links call that succeeds returns the id
\* of the node it created, and a later call with a link that carries the
\* returned value attaches its new node to that node.
C15_ReturnsIdAsClaimed ==
    (IsCreateWithLinks \/ IsImport) =>
        \A c \in NodeCalls :
            calls[c].ok =>
                /\ calls[c].ret = IdVal(NodeOfCall(c))
                /\ \A k \in 1..Len(calls[c].links) :
                      \A j \in NodeCalls :
                          (j < c /\ calls[j].ret = calls[c].links[k].internal_id) =>
                              \E r \in 1..Len(rels) :
                                  rels[r] = Rel(NodeOfCall(c), NodeOfCall(j),
                                                calls[c].links[k].rel_name)

\* C16 (as claimed): a create_node_with_links call with a link that names a
\* node the store does not hold raises and leaves the store as it found it.
C16_MissingLinkAsClaimed ==
    (IsCreateWithLinks
       /\ \E k \in 1..Len(op.links) : ~Matches(op.before.nodes, op.links[k].internal_id)) =>
        /\ result.status = "raised"
        /\ nodes = op.before.nodes
        /\ rels = op.before.rels

\* The labels of a labels argument.
LabelSet(arg) == { arg.l[i] : i \in 1..Len(arg.l) }
\* The node n of the store the call found carries a label of the argument.
Carries(n, arg) == op.before.nodes[n].labels \cap LabelSet(arg) # {}

\* C17 (as claimed): every node that carried a label of keep_labels when
\* delete_nodes_by_label was called is still there after it, unchanged, also
\* when it carries a label of delete_labels as well.
C17_KeepLabelsAsClaimed ==
    op.name = "delete_nodes_by_label" =>
        \A n \in DOMAIN op.before.nodes :
            Carries(n, op.keep_labels) =>
                n \in DOMAIN nodes /\ nodes[n] = op.before.nodes[n]

\* C18 (as claimed): after empty_dbase(keep_labels = K) the nodes left are
\* those that carried a label of K; without K no node and no relationship is
\* left.
C18_EmptyDbaseAsClaimed ==
    op.name = "empty_dbase" =>
        /\ DOMAIN nodes = { n \in DOMAIN op.before.nodes : Carries(n, op.keep_labels) }
        /\ op.keep_labels = ArgNone => rels = <<>>

(***************************************************************************)
(* Vocabulary of the restore's further properties.                         *)
(***************************************************************************)
\* The restore got through its node phase: a node was created for every node
\* record, and the relationship phase began.
NodePhaseDone ==
    /\ RestoreOfList
    /\ \A i \in 1..Len(op.json_str.items) : op.json_str.items[i].isDict
    /\ \A c \in CallsOf("create_node") : calls[c].ok
    /\ { calls[c].rec : c \in CallsOf("create_node") } = NodeRecs(op.json_str.items)
\* The restore failed in its relationship phase.
RelPhaseFailed == NodePhaseDone /\ result.status = "raised" /\ result.err = "INTERRUPTED"
\* The relationship record at which the relationship phase stopped, the
\* restore having counted n relationships.
StoppedAt(l, n) == CHOOSE i \in RelRecs(l) : Cardinality({ j \in RelRecs(l) : j < i }) = n
\* The store's node created for the node record i.
NodeOfRec(i) == calls[CallFor("create_node", i)].ret.n

\* C19 (as claimed): the dangling-reference error names the original id that
\* is missing among the node records: the start id of the record if that is
\* missing, else its end id.
C19_NamesMissingAsClaimed ==
    (RestoreOfList /\ result.reason \in DanglingReasons) =>
        LET l == op.json_str.items
            item == l[StoppedAt(l, result.relsImported)]
        IN  /\ result.named \notin NodeIds(l)
            /\ result.named = IF PyInt(item.start.id).n \notin NodeIds(l)
                              THEN PyInt(item.start.id).n
                              ELSE PyInt(item.end.id).n

\* C20: when the restore fails in its relationship phase, the
\* store holds a node for every node record, and its relationships are those
\* of the relationship records before the one it failed at, each between the
\* nodes created for the record's start and end ids; the records after it left
\* nothing.
C20_Prefix ==
    RelPhaseFailed =>
        LET l == op.json_str.items
            done == FirstRelRecs(l, result.relsImported)
            relOf(i) == Rel(NodeOfRec(LastNodeRec(l, PyInt(l[i].start.id).n)),
                            NodeOfRec(LastNodeRec(l, PyInt(l[i].end.id).n)),
                            l[i].label.s)
        IN  /\ Cardinality(DOMAIN nodes) = Cardinality(NodeRecs(l))
            /\ \A i \in NodeRecs(l) :
                  /\ NodeOfRec(i) \in DOMAIN nodes
                  /\ nodes[NodeOfRec(i)].labels = StoredLabels(l[i].labels)
            /\ { rels[k] : k \in 1..Len(rels) } = { relOf(i) : i \in done }

\* A node restored, then the link call for the first of two relationship
\* records fails.
C20_Witness ==
    /\ RelPhaseFailed
    /\ Cardinality(NodeRecs(op.json_str.items)) = 1
    /\ Cardinality(RelRecs(op.json_str.items)) = 2
    /\ Cardinality(DOMAIN nodes) = 1
    /\ Len(calls) = 2
    /\ calls[2].fn = "link_nodes_by_ids"

(***************************************************************************)
(* Further properties of the tree import.                                  *)
(***************************************************************************)
\* C21: when a node-creation call of a tree import fails, import_json raises;
\* the failed call is the last primitive call (nothing is retried, created or
\* deleted after it), and the store holds the node of every call before it,
\* with the labels and properties the call gave, and nothing else is taken out
\* of it.
C21_ImportFailure ==
    IsImport =>
        \A c \in NodeCalls :
            ~calls[c].ok =>
                /\ result.status = "raised"
                /\ result.err = "store failure"
                /\ c = Len(calls)
                /\ \A j \in 1..(c - 1) : calls[j].fn = "create_node_with_links" /\ calls[j].ok
                /\ DOMAIN nodes = 1..(c - 1)
                /\ \A j \in 1..(c - 1) :
                      /\ nodes[j].labels = calls[j].labels
                      /\ nodes[j].props = calls[j].props.kv

\* The third node-creation call fails: two nodes stay, without a root.
C21_Witness ==
    /\ IsImport
    /\ Len(calls) = 3
    /\ ~calls[3].ok
    /\ calls[3].fn = "create_node_with_links"
    /\ calls[3].path = <<>>
    /\ Cardinality(DOMAIN nodes) = 2
    /\ result.status = "raised"

\* The places of the document v: the paths to its values.
RECURSIVE PlacesOf(_)
PlacesOf(v) ==
    {<<>>} \cup
    (IF v.kind = "obj"
     THEN UNION { { <<i>> \o p : p \in PlacesOf(v.entries[i].v) } : i \in 1..Len(v.entries) }
     ELSE IF v.kind = "arr"
     THEN UNION { { <<i>> \o p : p \in PlacesOf(v.items[i]) } : i \in 1..Len(v.items) }
     ELSE {})
\* The place above p, and the position of p in it.
ParentOf(p) == SubSeq(p, 1, Len(p) - 1)
IndexOf(p) == p[Len(p)]
\* The places of the Object-valued entries of the document's Objects.
ObjectEntries(v) ==
    { p \in PlacesOf(v) :
        /\ p # <<>>
        /\ ValueAt(v, ParentOf(p)).kind = "obj"
        /\ ValueAt(v, p).kind = "obj" }
\* The key of the entry at the place p.
KeyOf(v, p) == ValueAt(v, ParentOf(p)).entries[IndexOf(p)].k
\* The node-creation calls made for the place p.
CallsAt(p) == { c \in NodeCalls : calls[c].path = p }

\* C23: a tree import never raises the 'more than 1 root node' internal error;
\* when no call fails, each Object-valued entry of an Object gets exactly one
\* node-creation call, whose returned value is the one value its import hands
\* back: the call for the enclosing Object carries exactly one link under the
\* entry's key.  The call for an empty Object has no properties and no links.
C23_OneRoot ==
    ImportRan =>
        LET doc == op.json_str.data
        IN  /\ result.err # "more than 1 root node"
            /\ NoFailure =>
                  \A p \in ObjectEntries(doc) :
                      /\ Cardinality(CallsAt(p)) = 1
                      /\ Cardinality(CallsAt(ParentOf(p))) = 1
                      /\ LET c == CHOOSE c \in CallsAt(p) : TRUE
                             d == CHOOSE d \in CallsAt(ParentOf(p)) : TRUE
                         IN  /\ c < d
                             /\ Cardinality({ i \in 1..Len(calls[d].links) :
                                     calls[d].links[i].rel_name = KeyOf(doc, p) }) = 1
                             /\ ValueAt(doc, p).entries = <<>> =>
                                   /\ calls[c].props.kv = <<>>
                                   /\ calls[c].links = <<>>

\* An Object with an empty Object and a non-empty Object as entries.
C23_Witness ==
    /\ ImportRan
    /\ op.json_str = TextOf(JObj(<<Entry("items", JObj(<<>>)),
                                   Entry("x", JObj(<<Entry("x", JInt(1))>>))>>))
    /\ result.status = "returned"
    /\ Len(result.value) = 1
    /\ Cardinality(NodeCalls) = 3
    /\ Len(calls[3].links) = 2

\* The places of the document's Objects.
ObjectPlaces(v) == { p \in PlacesOf(v) : ValueAt(v, p).kind = "obj" }
\* The entries of an Object whose values are literals, in order.
IsLiteralEntry(e) == is_literal(e.v)
LiteralEntries(entries) == SelectSeq(entries, IsLiteralEntry)

CallAt(p) == CHOOSE c \in CallsAt(p) : TRUE

\* C25 (as claimed): after a tree import without store failure, each
\* Object-valued entry k of an Object has one node labelled k, and the store
\* has exactly one relationship named k from the node of the enclosing Object
\* to that node; no relationship of the store points from the node of a place
\* to the node of a place above it.
C25_ChildLinkAsClaimed ==
    (ImportRan /\ op.failAt = 0) =>
        LET doc == op.json_str.data
        IN  /\ \A p \in ObjectEntries(doc) :
                  /\ Cardinality(CallsAt(p)) = 1
                  /\ nodes[NodeOfCall(CallAt(p))].labels = {KeyOf(doc, p)}
                  /\ Cardinality({ k \in 1..Len(rels) :
                        rels[k] = Rel(NodeOfCall(CallAt(ParentOf(p))),
                                      NodeOfCall(CallAt(p)),
                                      KeyOf(doc, p)) }) = 1
            /\ \A k \in 1..Len(rels) :
                  \A c, d \in NodeCalls :
                      (rels[k].from = NodeOfCall(c) /\ rels[k].to = NodeOfCall(d)) =>
                          ~Below(calls[d].path, calls[c].path)

\* The places of the arrays that are items of an array.
NestedArrays(v) ==
    { p \in PlacesOf(v) :
        /\ p # <<>>
        /\ ValueAt(v, ParentOf(p)).kind = "arr"
        /\ ValueAt(v, p).kind = "arr" }
\* The calls made for the places directly below p, in order of their places.
CallsBelow(p) == { c \in NodeCalls : Len(calls[c].path) = Len(p) + 1 /\ Below(p, calls[c].path) }

\* C26 (as claimed): after a tree import without store failure, each array
\* that is an item of an array has exactly one node-creation call, made after
\* the calls for its items, with properties None and one link per call made
\* for an item of it, each under the label of the call; and the import of an
\* array of arrays returns the ids of the grouping nodes, one per item.
C26_GroupingReturnAsClaimed ==
    (ImportRan /\ op.failAt = 0) =>
        LET doc == op.json_str.data
        IN  /\ \A p \in NestedArrays(doc) :
                  /\ Cardinality(CallsAt(p)) = 1
                  /\ LET c == CallAt(p)
                     IN  /\ calls[c].props = PropsNone
                         /\ Len(calls[c].links) = Cardinality(CallsBelow(p))
                         /\ \A j \in 1..Len(calls[c].links) :
                               {calls[c].links[j].rel_name} = calls[c].labels
                         /\ \A d \in CallsBelow(p) : d < c
            /\ (doc.kind = "arr" /\ \A i \in 1..Len(doc.items) : doc.items[i].kind = "arr") =>
                  /\ result.status = "returned"
                  /\ result.value = [i \in 1..Len(doc.items) |-> IdVal(NodeOfCall(CallAt(<<i>>)))]

\* The relationships of the store that point to the node n.
Incoming(n) == { k \in 1..Len(rels) : rels[k].to = n }
\* The node n is one of those the import returned.
ReturnedRoot(n) == \E i \in 1..Len(result.value) : result.value[i] = IdVal(n)

\* C29 (as claimed): after a successful tree import into the empty store, the
\* nodes and relationships form a forest: every node either is one of the
\* returned roots and has no incoming relationship, or has exactly one; so
\* there are as many relationships as nodes that are not returned roots.
C29_ForestAsClaimed ==
    (ImportRan /\ result.status = "returned") =>
        /\ \A n \in DOMAIN nodes :
              \/ ReturnedRoot(n) /\ Incoming(n) = {}
              \/ ~ReturnedRoot(n) /\ Cardinality(Incoming(n)) = 1
        /\ Len(rels) = Cardinality(DOMAIN nodes) - Len(result.value)

(***************************************************************************)
(* Further properties of the restore.                                      *)
(***************************************************************************)
\* The relationship record l[i] comes before the node records that carry its
\* start and end ids.
PrecedesEndpoints(l, i) ==
    /\ ~Dangling(l, i)
    /\ i < LastNodeRec(l, PyInt(l[i].start.id).n)
    /\ i < LastNodeRec(l, PyInt(l[i].end.id).n)
\* Every create_node call of the restore comes before every link call.
NodesBeforeLinks ==
    \A a \in CallsOf("create_node") : \A b \in CallsOf("link_nodes_by_ids") : a < b

\* C22 (as claimed): in a restore every create_node call comes before every
\* link_nodes_by_ids call, and a relationship record that precedes the node
\* records of its endpoints ends up, absent any store failure, as a
\* relationship of the store between the nodes created for those records.
C22_LinkedAsClaimed ==
    (RestoreOfList /\ AllWellFormed(op.json_str.items) /\ op.failAt = 0) =>
        LET l == op.json_str.items
        IN  /\ NodesBeforeLinks
            /\ \A i \in RelRecs(l) :
                  (PrecedesEndpoints(l, i) /\ \A j \in RelRecs(l) : ~Dangling(l, j)) =>
                      \E k \in 1..Len(rels) :
                          rels[k] = Rel(NodeOfRec(LastNodeRec(l, PyInt(l[i].start.id).n)),
                                        NodeOfRec(LastNodeRec(l, PyInt(l[i].end.id).n)),
                                        l[i].label.s)

\* The record has an id that int() does not accept: its own id if it is a
\* node record, the id of its start or of its end object if it is a
\* relationship record.
NonIntegerId(item) ==
    /\ item.isDict
    /\ \/ item.type = "node" /\ item.id.t # "absent" /\ ~PyInt(item.id).ok
       \/ /\ item.type = "relationship"
          /\ \/ item.start.t = "dict" /\ item.start.id.t # "absent" /\ ~PyInt(item.start.id).ok
             \/ item.end.t = "dict" /\ item.end.id.t # "absent" /\ ~PyInt(item.end.id).ok

RepeatedRel(l) ==
    \E i, j \in RelRecs(l) :
        /\ i < j
        /\ l[i].label = l[j].label
        /\ PyInt(l[i].start.id).n = PyInt(l[j].start.id).n
        /\ PyInt(l[i].end.id).n = PyInt(l[j].end.id).n

NodeRecsOf(l, n) == { i \in NodeRecs(l) : PyInt(l[i].id).n = n }
\* The relationship record l[i] names an original id that several node
\* records carry.
NamesRepeatedId(l, i) ==
    \/ Cardinality(NodeRecsOf(l, PyInt(l[i].start.id).n)) > 1
    \/ Cardinality(NodeRecsOf(l, PyInt(l[i].end.id).n)) > 1

\* C30 (as claimed): restoring, without store failure, a well-formed dump
\* without dangling relationship creates and counts a node for every node
\* record, also for those that repeat an original id, so that at least as many
\* nodes are counted as there are original ids; and a relationship record that
\* names a repeated id ends up as a relationship of the store at the node
\* created for the last record with that id.
C30_LastWinsAsClaimed ==
    (/\ RestoreOfList
     /\ AllWellFormed(op.json_str.items)
     /\ op.failAt = 0
     /\ \A i \in RelRecs(op.json_str.items) : ~Dangling(op.json_str.items, i)) =>
        LET l == op.json_str.items
        IN  /\ \A i \in NodeRecs(l) :
                  Cardinality({ c \in CallsOf("create_node") : calls[c].rec = i }) = 1
            /\ Cardinality(DOMAIN nodes) = Cardinality(NodeRecs(l))
            /\ result.nodesImported = Cardinality(NodeRecs(l))
            /\ Cardinality(NodeIds(l)) <= result.nodesImported
            /\ \A i \in RelRecs(l) :
                  NamesRepeatedId(l, i) =>
                      \E k \in 1..Len(rels) :
                          rels[k] = Rel(NodeOfRec(LastNodeRec(l, PyInt(l[i].start.id).n)),
                                        NodeOfRec(LastNodeRec(l, PyInt(l[i].end.id).n)),
                                        l[i].label.s)

====
